---- MODULE Spec2Model ----
(***************************************************************************)
(* Segmented wheel sieve engine of sosu-seisei-2 (src/src/cpu_engine.rs,   *)
(* src/src/sieve_math.rs): generate_primes_cpu, its segment workers and    *)
(* the wheel arithmetic, as a state machine.                               *)
(*                                                                         *)
(* Machine words are WordBits wide instead of 64: every u64 value lives in *)
(* 0..U64_MAX with U64_MAX = 2^WordBits - 1.  An arithmetic overflow is    *)
(* what the build makes of it: a panic when overflow checks are compiled   *)
(* in, a wrap modulo 2^WordBits otherwise.                                 *)
(* 2^8 and 2^64 are both 16 modulo 30, so the top of the 8-bit word has    *)
(* the residues modulo 2, 6 and 30 that the top of u64 has: the largest    *)
(* value is odd, 3 modulo 6 and 15 modulo 30.                              *)
(***************************************************************************)
EXTENDS Integers, Sequences, FiniteSets, TLC

\* ---------------------------------------------------------------- bounds
WordBits == 8        \* width of the machine word standing for u64
MaxSpan == 6         \* requests have |prime_max - prime_min| <= MaxSpan
MaxSegment == 3      \* effective segment sizes 1..MaxSegment
MaxThreads == 2      \* rayon pool sizes 1..MaxThreads
MaxGroups == 8       \* cap on the number of batches of one run
MaxLimit == 40       \* simple_sieve is called on its own with limit <= MaxLimit
MaxWidth == 33       \* segments sieved on their own have high - low <= MaxWidth

RECURSIVE Pow2(_)
Pow2(n) == IF n = 0 THEN 1 ELSE 2 * Pow2(n - 1)

Modulus == Pow2(WordBits)
U64_MAX == Modulus - 1

Min(a, b) == IF a <= b THEN a ELSE b
Max(a, b) == IF a >= b THEN a ELSE b

saturating_add(a, b) == IF a + b > U64_MAX THEN U64_MAX ELSE a + b
saturating_sub(a, b) == IF a < b THEN 0 ELSE a - b
\* the value a wrapping build keeps of an unbounded result
Wrap(v) == v % Modulus

\* ------------------------------------------------------- sieve_math.rs
\* the loop of integer_sqrt with the product of line 9 taken modulo the word
\* (`mid * mid` for `mid.checked_mul(mid)`)
RECURSIVE isqrt_loop_unchecked(_, _, _)
isqrt_loop_unchecked(n, low, high) ==
    IF low > high THEN [r |-> high, ovf |-> FALSE]
    ELSE IF low + high > U64_MAX THEN [r |-> 0, ovf |-> TRUE]
    ELSE LET mid == (low + high) \div 2
             val == Wrap(mid * mid)
         IN  IF val = n THEN [r |-> mid, ovf |-> FALSE]
             ELSE IF val < n
                  THEN IF mid + 1 > U64_MAX THEN [r |-> 0, ovf |-> TRUE]
                       ELSE isqrt_loop_unchecked(n, mid + 1, high)
                  ELSE IF mid = 0 THEN [r |-> 0, ovf |-> TRUE]
                       ELSE isqrt_loop_unchecked(n, low, mid - 1)

\* lines 7-15: r is the value returned; ovf tells that low + high or mid + 1
\* left the word or that mid - 1 was taken of mid = 0, where the search stops
RECURSIVE isqrt_loop(_, _, _)
isqrt_loop(n, low, high) ==
    IF low > high THEN [r |-> high, ovf |-> FALSE]
    ELSE IF low + high > U64_MAX THEN [r |-> 0, ovf |-> TRUE]
    ELSE LET mid == (low + high) \div 2
             val == mid * mid          \* checked_mul: None above U64_MAX
         IN  IF val <= U64_MAX /\ val = n THEN [r |-> mid, ovf |-> FALSE]
             ELSE IF val <= U64_MAX /\ val < n
                  THEN IF mid + 1 > U64_MAX THEN [r |-> 0, ovf |-> TRUE]
                       ELSE isqrt_loop(n, mid + 1, high)
                  ELSE IF mid = 0 THEN [r |-> 0, ovf |-> TRUE]
                       ELSE isqrt_loop(n, low, mid - 1)

integer_sqrt(n) == isqrt_loop(n, 0, n).r

\* inner loop of simple_sieve: j = i*i, i*i + i, ... <= limit are cleared
RECURSIVE sieve_mark(_, _, _, _)
sieve_mark(flags, j, i, limit) ==
    IF j > limit THEN flags
    ELSE sieve_mark([flags EXCEPT ![j] = FALSE], j + i, i, limit)

\* the loop of lines 32-40 over 2..lim_sqrt, lim_sqrt not included
RECURSIVE sieve_outer_exclusive(_, _, _, _)
sieve_outer_exclusive(flags, i, lim_sqrt, limit) ==
    IF i >= lim_sqrt THEN flags
    ELSE sieve_outer_exclusive(IF flags[i] THEN sieve_mark(flags, i * i, i, limit) ELSE flags,
                               i + 1, lim_sqrt, limit)

\* lines 32-40
RECURSIVE sieve_outer(_, _, _, _)
sieve_outer(flags, i, lim_sqrt, limit) ==
    IF i > lim_sqrt THEN flags
    ELSE sieve_outer(IF flags[i] THEN sieve_mark(flags, i * i, i, limit) ELSE flags,
                     i + 1, lim_sqrt, limit)

RECURSIVE sieve_collect(_, _, _)
sieve_collect(flags, i, limit) ==
    IF i > limit THEN <<>>
    ELSE (IF flags[i] THEN <<i>> ELSE <<>>) \o sieve_collect(flags, i + 1, limit)

simple_sieve(limit) ==
    IF limit < 2 THEN <<>>
    ELSE LET init == [k \in 0..limit |-> k >= 2]
         IN  sieve_collect(sieve_outer(init, 2, integer_sqrt(limit), limit), 2, limit)

WheelTypes == {"Odd", "Mod6", "Mod30"}

wheel_excluded_primes(wheel_type) ==
    CASE wheel_type = "Odd" -> <<2>>
      [] wheel_type = "Mod6" -> <<2, 3>>
      [] wheel_type = "Mod30" -> <<2, 3, 5>>

\* ------------------------------------------------------------ memory.rs
\* floor(a * b / d) without an intermediate product beyond 32-bit integers
MulDiv(a, b, d) == (a \div d) * b + ((a % d) * b) \div d

\* get_wheel_compression_ratio, in thousandths
wheel_compression_permille(wheel_type) ==
    CASE wheel_type = "Odd" -> 500
      [] wheel_type = "Mod6" -> 333
      [] wheel_type = "Mod30" -> 267

min_size == 1000000
max_size == 100000000

\* line 61: safe_memory * 8.0 / (compression * 1.2), truncated
raw_segment_size(total_memory, memory_usage_percent, num_threads, wheel_type) ==
    LET percent == Max(10, Min(90, memory_usage_percent))
        allowed_memory == MulDiv(total_memory, percent, 100)
        per_thread_memory == allowed_memory \div Max(num_threads, 1)
        safe_memory == per_thread_memory \div 2
    IN  MulDiv(safe_memory, 20000, 3 * wheel_compression_permille(wheel_type))

\* the result of line 61 returned as it is
calculate_optimal_segment_size_unclamped(total_memory, memory_usage_percent, num_threads, wheel_type) ==
    raw_segment_size(total_memory, memory_usage_percent, num_threads, wheel_type)

\* memory.rs lines 37-68; total_memory is what get_total_memory returns
calculate_optimal_segment_size(total_memory, memory_usage_percent, num_threads, wheel_type) ==
    Max(min_size, Min(max_size,
        raw_segment_size(total_memory, memory_usage_percent, num_threads, wheel_type)))

\* cpu_engine.rs lines 51-55
effective_segment_size(segment_size, optimal_segment_size) ==
    IF segment_size > 0 THEN Min(segment_size, optimal_segment_size)
    ELSE optimal_segment_size

\* ------------------------------------------------ wheel coordinate mapping
MOD30_PATTERN == <<1, 7, 11, 13, 17, 19, 23, 29>>

\* indexed by residue + 1; 255 marks a residue that is no candidate
MOD30_TO_INDEX ==
    <<255, 0, 255, 255, 255, 255, 255, 1,
      255, 255, 255, 2, 255, 3, 255, 255,
      255, 4, 255, 5, 255, 255, 255, 6,
      255, 255, 255, 255, 255, 7>>

NotCandidate == 255
None == -1

n_to_index(n, low, wheel_type) ==
    IF n < low THEN None
    ELSE CASE wheel_type = "Odd" ->
                IF n % 2 = 1 /\ low % 2 = 1 THEN (n - low) \div 2 ELSE None
           [] wheel_type = "Mod6" ->
                LET n_rem == n % 6
                    low_rem == low % 6
                IN  IF (n_rem # 1 /\ n_rem # 5) \/ (low_rem # 1 /\ low_rem # 5)
                    THEN None
                    ELSE LET low_in_period == (low \div 6) * 2 + (IF low_rem = 5 THEN 1 ELSE 0)
                             n_in_period == (n \div 6) * 2 + (IF n_rem = 5 THEN 1 ELSE 0)
                         IN  n_in_period - low_in_period
           [] wheel_type = "Mod30" ->
                LET n_idx == MOD30_TO_INDEX[(n % 30) + 1]
                    low_idx == MOD30_TO_INDEX[(low % 30) + 1]
                IN  IF n_idx = NotCandidate \/ low_idx = NotCandidate
                    THEN None
                    ELSE ((n \div 30) * 8 + n_idx) - ((low \div 30) * 8 + low_idx)

\* the unbounded value of index_to_n; above U64_MAX the u64 computation overflows
index_to_n(idx, low, wheel_type) ==
    CASE wheel_type = "Odd" -> low + idx * 2
      [] wheel_type = "Mod6" ->
            LET low_rem == low % 6
                low_in_period == (low \div 6) * 2 + (IF low_rem = 5 THEN 1 ELSE 0)
                target_in_period == low_in_period + idx
                period == target_in_period \div 2
            IN  IF target_in_period % 2 = 0 THEN period * 6 + 1 ELSE period * 6 + 5
      [] wheel_type = "Mod30" ->
            LET low_idx == MOD30_TO_INDEX[(low % 30) + 1]
                low_in_period == (low \div 30) * 8 + low_idx
                target_in_period == low_in_period + idx
                period == target_in_period \div 8
            IN  period * 30 + MOD30_PATTERN[(target_in_period % 8) + 1]

\* lines 442-459 without the slack: the `+ 2` and `+ 8` of lines 451 and 456
\* left out
calculate_bitvec_size_tight(low, high, wheel_type) ==
    CASE wheel_type = "Odd" -> (high - low) \div 2 + 1
      [] wheel_type = "Mod6" -> ((high - low + 1) \div 6) * 2
      [] wheel_type = "Mod30" -> ((high - low + 1) \div 30) * 8

calculate_bitvec_size(low, high, wheel_type) ==
    CASE wheel_type = "Odd" -> (high - low) \div 2 + 1
      [] wheel_type = "Mod6" -> ((high - low + 1) \div 6) * 2 + 2
      [] wheel_type = "Mod30" -> ((high - low + 1) \div 30) * 8 + 8

\* the unbounded value of adjust_low; above U64_MAX the u64 addition overflows
adjust_low(low, wheel_type) ==
    CASE wheel_type = "Odd" -> IF low % 2 = 0 THEN low + 1 ELSE low
      [] wheel_type = "Mod6" ->
            LET rem == low % 6
            IN  (CASE rem \in {1, 5} -> low
                   [] rem = 0 -> low + 1
                   [] rem = 2 -> low + 3
                   [] rem = 3 -> low + 2
                   [] rem = 4 -> low + 1)
      [] wheel_type = "Mod30" ->
            LET rem30 == low % 30
                hits == {offset \in 1..29 :
                            MOD30_TO_INDEX[((rem30 + offset) % 30) + 1] # NotCandidate}
            IN  IF MOD30_TO_INDEX[rem30 + 1] # NotCandidate THEN low
                ELSE low + (CHOOSE offset \in hits : \A o \in hits : offset <= o)

\* ------------------------------------------------ segment sieving kernel
\* A step of the kernel runs from one load of stop_flag to the next.  Its
\* outcome: the worker's next position (w), or its result when the kernel
\* returned (done, primes); ovf tells that some u64 operation of the step
\* overflowed (the values shown are the wrapped ones); abort tells that the
\* step cannot complete in any build.

\* `while n <= high && n_to_index(n, low, wheel).is_none() { n += p }`, also the
\* alignment loop of start (lines 284-289), which computes the same.  After k
\* iterations n holds n + k*p modulo the word; the loop ends with the least k
\* for which its condition fails, and one of its additions has overflowed
\* exactly when n + k*p exceeds the word
next_candidate(n, p, low, high, wheel_type, ovf) ==
    LET exits(k) == \/ Wrap(n + k * p) > high
                    \/ n_to_index(Wrap(n + k * p), low, wheel_type) # None
        k == CHOOSE i \in 0..Modulus : exits(i) /\ \A j \in 0..(i - 1) : ~exits(j)
    IN  [n |-> Wrap(n + k * p), ovf |-> ovf \/ n + k * p > U64_MAX]

\* lines 313-321: the set bits, in index order, converted back and filtered
RECURSIVE collect_primes(_, _, _, _, _, _)
collect_primes(is_prime, i, len, low, high, wheel_type) ==
    IF i >= len THEN [primes |-> <<>>, ovf |-> FALSE]
    ELSE LET rest == collect_primes(is_prime, i + 1, len, low, high, wheel_type)
             v == index_to_n(i, low, wheel_type)
         IN  IF is_prime[i]
             THEN [primes |-> (IF Wrap(v) <= high THEN <<Wrap(v)>> ELSE <<>>) \o rest.primes,
                   ovf |-> rest.ovf \/ v > U64_MAX]
             ELSE rest

IdleWorker == [wpc |-> "done", low |-> 0, len |-> 0, is_prime |-> <<>>, pi |-> 0, n |-> 0]
PendingWorker == [IdleWorker EXCEPT !.wpc = "pending"]

Returned(primes, stopped, ovf) ==
    [w |-> IdleWorker, done |-> TRUE, primes |-> primes, stopped |-> stopped,
     ovf |-> ovf, abort |-> FALSE]

Running(w, ovf) ==
    [w |-> w, done |-> FALSE, primes |-> <<>>, stopped |-> FALSE,
     ovf |-> ovf, abort |-> FALSE]

Aborted ==
    [w |-> IdleWorker, done |-> FALSE, primes |-> <<>>, stopped |-> FALSE,
     ovf |-> TRUE, abort |-> TRUE]

is_wheel_skipped(p, wheel_type) ==
    CASE wheel_type = "Odd" -> p = 2
      [] wheel_type = "Mod6" -> p = 2 \/ p = 3
      [] wheel_type = "Mod30" -> p = 2 \/ p = 3 \/ p = 5

\* the for loop over small_primes reaches index pi: the loop is over and the
\* primes are collected, or the iteration for small_primes[pi] starts (line 246)
next_prime(w, pi, high, sp, wheel_type, ovf) ==
    IF pi > Len(sp)
    THEN LET c == collect_primes(w.is_prime, 0, w.len, w.low, high, wheel_type)
         IN  Returned(c.primes, FALSE, ovf \/ c.ovf)
    ELSE Running([w EXCEPT !.wpc = "outer", !.pi = pi, !.n = 0], ovf)

\* lines 229-242, entered with stop_flag clear at line 167
kernel_begin(low_inclusive, high_inclusive, sp, wheel_type) ==
    IF low_inclusive > high_inclusive THEN Returned(<<>>, FALSE, FALSE)
    ELSE LET low == adjust_low(low_inclusive, wheel_type)
         IN  IF low > U64_MAX
             \* checked: the addition panics; wrapping: low wraps below every
             \* wheel period and the bit array for [low, high] exceeds what
             \* bitvec can allocate
             THEN Aborted
             ELSE IF low > high_inclusive THEN Returned(<<>>, FALSE, FALSE)
             ELSE LET len == calculate_bitvec_size(low, high_inclusive, wheel_type)
                      w == [wpc |-> "outer", low |-> low, len |-> len,
                            is_prime |-> [i \in 0..(len - 1) |-> TRUE],
                            pi |-> 1, n |-> 0]
                  IN  next_prime(w, 1, high_inclusive, sp, wheel_type, FALSE)

\* lines 250-292, entered with stop_flag clear at line 246
kernel_outer(w, high, sp, wheel_type) ==
    LET p == sp[w.pi]
        low == w.low
    IN  IF is_wheel_skipped(p, wheel_type)
        THEN next_prime(w, w.pi + 1, high, sp, wheel_type, FALSE)
        ELSE IF p * p > high
        THEN LET c == collect_primes(w.is_prime, 0, w.len, low, high, wheel_type)
             IN  Returned(c.primes, FALSE, c.ovf)
        ELSE LET first == IF low % p = 0 THEN low ELSE low + (p - (low % p))
                 start == IF Wrap(first) < p * p THEN p * p ELSE Wrap(first)
                 nc == next_candidate(start, p, low, high, wheel_type, first > U64_MAX)
             IN  IF nc.n > high
                 THEN next_prime(w, w.pi + 1, high, sp, wheel_type, nc.ovf)
                 ELSE Running([w EXCEPT !.wpc = "mark", !.n = nc.n], nc.ovf)

\* lines 298-308, entered with stop_flag clear at line 294
kernel_mark(w, high, sp, wheel_type) ==
    LET p == sp[w.pi]
        idx == n_to_index(w.n, w.low, wheel_type)
        marked == IF idx # None /\ idx < w.len
                  THEN [w EXCEPT !.is_prime[idx] = FALSE]
                  ELSE w
        nc == next_candidate(Wrap(w.n + p), p, w.low, high, wheel_type, w.n + p > U64_MAX)
    IN  IF nc.n > high
        THEN next_prime(marked, w.pi + 1, high, sp, wheel_type, nc.ovf)
        ELSE Running([marked EXCEPT !.n = nc.n], nc.ovf)

\* ------------------------------------------------------------- the state
VARIABLES
    cfg,            \* the request: prime_min, prime_max, wheel_type, and the
                    \* values lines 45-55 derive: segment_size, num_threads
    stop_flag,      \* the shared AtomicBool
    build,          \* "any" until an overflow has wrapped, "release" after
    pc,             \* where generate_primes_cpu stands
    ret,            \* "none" while it runs, then what the call came to
    total_range, small_primes, ex_i, seg_start, processed,
    groups,         \* group_index
    group_bounds,   \* the (low, high) pairs of the batch being processed
    workers,        \* one sieve worker per pair of group_bounds
    results,        \* the SegmentResults of the batch
    res_i, prime_i, \* the result, and the prime in it, being written
    written,        \* the arguments of the write_prime calls, in call order
    finish_calls,   \* how often writer.finish was called
    progress,       \* the Progress values handed to progress_cb, in order
    writer_error,   \* "none", or the writer call that returned an error
    \* history of the run, read by no action
    counted,        \* the SegmentResults added to `processed`, in order
    batch_base,     \* Len(written) when the current batch started
    cancel_at,      \* what stood when stop_flag was set (see SetStop): len and
                    \* groups are Len(written) and groups then, limit is len
                    \* plus the rest of the segment being written
    cancel_seen,    \* generate_primes_cpu itself loaded stop_flag as true
    segments,       \* every (low, high) pair pushed to a group_bounds, in order
    \* a call of one of the engine's functions on its own
    call,           \* the function and its arguments
    value           \* what the call returned

vars == <<cfg, stop_flag, build, pc, ret, total_range, small_primes, ex_i,
          seg_start, processed, groups, group_bounds, workers, results,
          res_i, prime_i, written, finish_calls, progress, writer_error,
          counted, batch_base, cancel_at, cancel_seen, segments, call, value>>

\* the request and what does not belong to the run
env == <<cfg, call, value>>
orch == <<total_range, small_primes, ex_i, seg_start, processed, groups>>
batch == <<group_bounds, workers, results, res_i, prime_i>>
sink == <<written, finish_calls, progress, writer_error>>
hist == <<counted, batch_base, segments, cancel_at, cancel_seen>>

Requests ==
    {r \in [prime_min : 0..U64_MAX, prime_max : 0..U64_MAX, wheel_type : WheelTypes,
            segment_size : 1..MaxSegment, num_threads : 1..MaxThreads] :
        \/ /\ r.prime_max - r.prime_min <= MaxSpan
           /\ r.prime_min - r.prime_max <= MaxSpan
        \/ /\ r.prime_min = 0
           /\ r.prime_max = U64_MAX}

NoCancel == [len |-> -1, high |-> -1, groups |-> -1, limit |-> -1]
NoCall == [fn |-> "none"]

Init ==
    /\ cfg \in Requests
    /\ stop_flag \in BOOLEAN
    /\ build = "any"
    /\ pc = "start"
    /\ ret = "none"
    /\ total_range = 0
    /\ small_primes = <<>>
    /\ ex_i = 0
    /\ seg_start = 0
    /\ processed = 0
    /\ groups = 0
    /\ group_bounds = <<>>
    /\ workers = <<>>
    /\ results = <<>>
    /\ res_i = 0
    /\ prime_i = 0
    /\ written = <<>>
    /\ finish_calls = 0
    /\ progress = <<>>
    /\ writer_error = "none"
    /\ counted = <<>>
    /\ batch_base = 0
    /\ cancel_at = IF stop_flag THEN [len |-> 0, high |-> 0, groups |-> 0, limit |-> 0]
                   ELSE NoCancel
    /\ cancel_seen = FALSE
    /\ segments = <<>>
    /\ call = NoCall
    /\ value = NoCall

\* the call returns `r`
Return(r) ==
    /\ pc' = "done"
    /\ ret' = r

\* what the build makes of a step in which a u64 operation overflowed
OverflowOutcomes(ovf) ==
    IF ~ovf THEN {"ok"}
    ELSE IF build = "release" THEN {"wrap"}
    ELSE {"panic", "wrap"}

\* ------------------------------------------------- generate_primes_cpu
\* the range test of line 31 off by one: an empty range min = max + 1 passes
is_invalid_range_lax(c) == c.prime_min > c.prime_max + 1

\* line 31
is_invalid_range(c) == c.prime_min > c.prime_max

\* lines 29-37
CheckRange ==
    /\ pc = "start"
    /\ IF is_invalid_range(cfg)
       THEN /\ Return("ErrRange")
            /\ UNCHANGED <<build, total_range>>
       ELSE LET range == cfg.prime_max - cfg.prime_min + 1
            IN  \E o \in OverflowOutcomes(range > U64_MAX) :
                    IF o = "panic"
                    THEN /\ Return("Abort")
                         /\ UNCHANGED <<build, total_range>>
                    ELSE /\ pc' = "entry"
                         /\ ret' = ret
                         /\ total_range' = Wrap(range)
                         /\ build' = IF o = "wrap" THEN "release" ELSE build
    /\ UNCHANGED <<env, stop_flag, small_primes, ex_i, seg_start, processed, groups,
                   batch, sink, hist>>

\* the first index >= i of a wheel-excluded prime that lies in the range
RECURSIVE next_excluded(_, _)
next_excluded(i, c) ==
    LET ex == wheel_excluded_primes(c.wheel_type)
    IN  IF i > Len(ex) THEN i
        ELSE IF c.prime_min <= ex[i] /\ ex[i] <= c.prime_max THEN i
        ELSE next_excluded(i + 1, c)

\* lines 39-41 returning an error where they return Ok(())
CheckStopAtEntry_err ==
    /\ pc = "entry"
    /\ IF stop_flag
       THEN /\ Return("ErrIo")
            /\ cancel_seen' = TRUE
            /\ UNCHANGED <<small_primes, ex_i>>
       ELSE /\ small_primes' = simple_sieve(integer_sqrt(cfg.prime_max) + 1)
            /\ ex_i' = next_excluded(1, cfg)
            /\ pc' = "excluded"
            /\ UNCHANGED <<ret, cancel_seen>>
    /\ UNCHANGED <<env, stop_flag, build, total_range, seg_start, processed, groups,
                   batch, sink, counted, batch_base, segments, cancel_at>>

\* lines 39-71
CheckStopAtEntry ==
    /\ pc = "entry"
    /\ IF stop_flag
       THEN /\ Return("Ok")
            /\ cancel_seen' = TRUE
            /\ UNCHANGED <<small_primes, ex_i>>
       ELSE /\ small_primes' = simple_sieve(integer_sqrt(cfg.prime_max) + 1)
            /\ ex_i' = next_excluded(1, cfg)
            /\ pc' = "excluded"
            /\ UNCHANGED <<ret, cancel_seen>>
    /\ UNCHANGED <<env, stop_flag, build, total_range, seg_start, processed, groups,
                   batch, sink, counted, batch_base, segments, cancel_at>>

\* lines 73-77: one write_prime(p) of the loop, returning Ok
WriteExcludedPrime ==
    /\ pc = "excluded"
    /\ ex_i <= Len(wheel_excluded_primes(cfg.wheel_type))
    /\ written' = Append(written, wheel_excluded_primes(cfg.wheel_type)[ex_i])
    /\ ex_i' = next_excluded(ex_i + 1, cfg)
    /\ UNCHANGED <<env, stop_flag, build, pc, ret, total_range, small_primes,
                   seg_start, processed, groups, batch, finish_calls, progress,
                   writer_error, hist>>

\* lines 73-77: write_prime(p)? returns the writer's error
WriteExcludedPrimeErr ==
    /\ pc = "excluded"
    /\ ex_i <= Len(wheel_excluded_primes(cfg.wheel_type))
    /\ written' = Append(written, wheel_excluded_primes(cfg.wheel_type)[ex_i])
    /\ writer_error' = "write_prime"
    /\ Return("ErrIo")
    /\ UNCHANGED <<env, stop_flag, build, orch, batch, finish_calls, progress, hist>>

\* lines 80-119 with the call of progress_cb of lines 87-91 left out
CheckSieveStart_silent ==
    /\ pc = "excluded"
    /\ ex_i > Len(wheel_excluded_primes(cfg.wheel_type))
    /\ LET ex == wheel_excluded_primes(cfg.wheel_type)
           sieve_start == ex[Len(ex)] + 1
           first == Max(sieve_start, cfg.prime_min)
       IN  IF sieve_start > cfg.prime_max
           THEN /\ pc' = "finish"
                /\ UNCHANGED <<seg_start, processed, progress>>
           ELSE IF first > cfg.prime_max
           THEN /\ pc' = "finish"
                /\ UNCHANGED <<seg_start, processed, progress>>
           ELSE /\ seg_start' = first
                /\ processed' = saturating_sub(first, cfg.prime_min)
                /\ pc' = "loop"
                /\ UNCHANGED progress
    /\ UNCHANGED <<env, stop_flag, build, ret, total_range, small_primes, ex_i, groups,
                   batch, written, finish_calls, writer_error, hist>>

\* lines 80-119
CheckSieveStart ==
    /\ pc = "excluded"
    /\ ex_i > Len(wheel_excluded_primes(cfg.wheel_type))
    /\ LET ex == wheel_excluded_primes(cfg.wheel_type)
           sieve_start == ex[Len(ex)] + 1
           first == Max(sieve_start, cfg.prime_min)
       IN  IF sieve_start > cfg.prime_max
           THEN /\ progress' = Append(progress,
                                      [processed |-> total_range, total |-> total_range])
                /\ pc' = "finish"
                /\ UNCHANGED <<seg_start, processed>>
           ELSE IF first > cfg.prime_max
           THEN /\ pc' = "finish"
                /\ UNCHANGED <<seg_start, processed, progress>>
           ELSE /\ seg_start' = first
                /\ processed' = saturating_sub(first, cfg.prime_min)
                /\ pc' = "loop"
                /\ UNCHANGED progress
    /\ UNCHANGED <<env, stop_flag, build, ret, total_range, small_primes, ex_i, groups,
                   batch, written, finish_calls, writer_error, hist>>

\* lines 140-150: the bounds of the next batch, and where the one after starts
RECURSIVE build_group(_, _, _, _)
build_group(start, k, bounds, c) ==
    IF k = 0 \/ start > c.prime_max
    THEN [bounds |-> bounds, seg_start |-> start]
    ELSE LET seg_end == Min(saturating_add(start, c.segment_size - 1), c.prime_max)
         IN  build_group(saturating_add(seg_end, 1), k - 1,
                         Append(bounds, <<start, seg_end>>), c)

\* lines 131-161: the loop test, the load of stop_flag, the next batch handed
\* to the pool
StartGroup ==
    /\ pc = "loop"
    /\ IF seg_start > cfg.prime_max
       THEN /\ pc' = "finish"
            /\ UNCHANGED <<seg_start, groups, batch, batch_base, segments, cancel_seen>>
       ELSE IF stop_flag
       THEN /\ pc' = "finish"
            /\ cancel_seen' = TRUE
            /\ UNCHANGED <<seg_start, groups, batch, batch_base, segments>>
       ELSE LET g == build_group(seg_start, Max(cfg.num_threads, 1), <<>>, cfg)
            IN  /\ groups < MaxGroups
                /\ groups' = groups + 1
                /\ group_bounds' = g.bounds
                /\ seg_start' = g.seg_start
                /\ workers' = [i \in 1..Len(g.bounds) |-> PendingWorker]
                /\ results' = <<>>
                /\ res_i' = 0
                /\ prime_i' = 0
                /\ batch_base' = Len(written)
                /\ segments' = segments \o g.bounds
                /\ pc' = IF g.bounds = <<>> THEN "finish" ELSE "join"
                /\ UNCHANGED cancel_seen
    /\ UNCHANGED <<env, stop_flag, build, ret, total_range, small_primes, ex_i,
                   processed, sink, counted, cancel_at>>

\* ---------------------------------------------------- the segment workers
\* what the closure of lines 166-178 returns for group_bounds[i]; `stopped`
\* records that it returned because it had loaded stop_flag as true
SegmentResult(i, primes, stopped) ==
    [low |-> group_bounds[i][1], high |-> group_bounds[i][2], primes |-> primes,
     stopped |-> stopped]

\* worker i takes the step `out`; a panic of a worker unwinds through the pool
\* into generate_primes_cpu
WorkerTakes(i, out) ==
    IF out.abort
    THEN /\ Return("Abort")
         /\ UNCHANGED <<build, workers, results>>
    ELSE \E o \in OverflowOutcomes(out.ovf) :
            IF o = "panic"
            THEN /\ Return("Abort")
                 /\ UNCHANGED <<build, workers, results>>
            ELSE /\ build' = IF o = "wrap" THEN "release" ELSE build
                 /\ workers' = [workers EXCEPT ![i] = out.w]
                 /\ results' = IF out.done
                               THEN Append(results, SegmentResult(i, out.primes, out.stopped))
                               ELSE results
                 /\ UNCHANGED <<pc, ret>>

WorkerFrame == <<env, stop_flag, orch, group_bounds, res_i, prime_i, sink, hist>>

\* lines 166-177 and 229-242: the closure starts on a segment
WorkerBegin(i) ==
    /\ pc = "join"
    /\ workers[i].wpc = "pending"
    /\ WorkerTakes(i, IF stop_flag THEN Returned(<<>>, TRUE, FALSE)
                      ELSE kernel_begin(group_bounds[i][1], group_bounds[i][2],
                                        small_primes, cfg.wheel_type))
    /\ UNCHANGED WorkerFrame

\* lines 245-292: one iteration of the loop over small_primes, up to its marking loop
SieveNextPrime(i) ==
    /\ pc = "join"
    /\ workers[i].wpc = "outer"
    /\ WorkerTakes(i, IF stop_flag THEN Returned(<<>>, TRUE, FALSE)
                      ELSE kernel_outer(workers[i], group_bounds[i][2],
                                        small_primes, cfg.wheel_type))
    /\ UNCHANGED WorkerFrame

\* lines 293-309: one iteration of the marking loop
MarkMultiple(i) ==
    /\ pc = "join"
    /\ workers[i].wpc = "mark"
    /\ WorkerTakes(i, IF stop_flag THEN Returned(<<>>, TRUE, FALSE)
                      ELSE kernel_mark(workers[i], group_bounds[i][2],
                                       small_primes, cfg.wheel_type))
    /\ UNCHANGED WorkerFrame

\* ------------------------------------------------- fan-in and the writes
\* results.sort_by_key(|r| r.low): a stable insertion sort
RECURSIVE sort_by_low(_)
sort_by_low(rs) ==
    IF Len(rs) <= 1 THEN rs
    ELSE LET sorted == sort_by_low(SubSeq(rs, 1, Len(rs) - 1))
             last == rs[Len(rs)]
             k == Cardinality({j \in 1..Len(sorted) : sorted[j].low <= last.low})
         IN  SubSeq(sorted, 1, k) \o <<last>> \o SubSeq(sorted, k + 1, Len(sorted))

\* lines 164-182 with a collect that does not wait: it goes on as soon as one
\* worker of the batch has returned
JoinGroup_any ==
    /\ pc = "join"
    /\ \E i \in DOMAIN workers : workers[i].wpc = "done"
    /\ results' = sort_by_low(results)
    /\ res_i' = 1
    /\ prime_i' = 0
    /\ pc' = "write_check"
    /\ UNCHANGED <<env, stop_flag, build, ret, orch, group_bounds, workers, sink, hist>>

\* lines 164-182 without the sort of line 182: the results stay in the order
\* in which the workers returned
JoinGroup_unsorted ==
    /\ pc = "join"
    /\ \A i \in DOMAIN workers : workers[i].wpc = "done"
    /\ results' = results
    /\ res_i' = 1
    /\ prime_i' = 0
    /\ pc' = "write_check"
    /\ UNCHANGED <<env, stop_flag, build, ret, orch, group_bounds, workers, sink, hist>>

\* lines 164-182: every worker of the batch has returned; the results stand in
\* the order in which the workers returned until they are sorted
JoinGroup ==
    /\ pc = "join"
    /\ \A i \in DOMAIN workers : workers[i].wpc = "done"
    /\ results' = sort_by_low(results)
    /\ res_i' = 1
    /\ prime_i' = 0
    /\ pc' = "write_check"
    /\ UNCHANGED <<env, stop_flag, build, ret, orch, group_bounds, workers, sink, hist>>

\* line 195 and the step of the for loop of line 185
SegmentWritten ==
    /\ processed' = saturating_add(processed,
                                   results[res_i].high - results[res_i].low + 1)
    /\ counted' = Append(counted, results[res_i])
    /\ res_i' = res_i + 1
    /\ prime_i' = 0
    /\ pc' = IF res_i + 1 > Len(results) THEN "progress" ELSE "write_check"

\* lines 185-190 without the load of stop_flag of lines 186-189
CheckStopBeforeWrite_unchecked ==
    /\ pc = "write_check"
    /\ IF results[res_i].primes = <<>>
       THEN SegmentWritten
       ELSE /\ pc' = "write"
            /\ prime_i' = 1
            /\ UNCHANGED <<processed, res_i, counted>>
    /\ UNCHANGED <<env, stop_flag, build, ret, total_range, small_primes, ex_i,
                   seg_start, groups, group_bounds, workers, results, sink,
                   batch_base, segments, cancel_at, cancel_seen>>

\* lines 185-190: the load of stop_flag before a segment's primes are written
CheckStopBeforeWrite ==
    /\ pc = "write_check"
    /\ IF stop_flag
       THEN /\ pc' = "finish"
            /\ cancel_seen' = TRUE
            /\ UNCHANGED <<processed, res_i, prime_i, counted>>
       ELSE IF results[res_i].primes = <<>>
       THEN /\ SegmentWritten
            /\ UNCHANGED cancel_seen
       ELSE /\ pc' = "write"
            /\ prime_i' = 1
            /\ UNCHANGED <<processed, res_i, counted, cancel_seen>>
    /\ UNCHANGED <<env, stop_flag, build, ret, total_range, small_primes, ex_i,
                   seg_start, groups, group_bounds, workers, results, sink,
                   batch_base, segments, cancel_at>>

\* lines 191-195: one write_prime(p) of the loop, returning Ok
WritePrime ==
    /\ pc = "write"
    /\ written' = Append(written, results[res_i].primes[prime_i])
    /\ IF prime_i = Len(results[res_i].primes)
       THEN SegmentWritten
       ELSE /\ prime_i' = prime_i + 1
            /\ UNCHANGED <<pc, processed, res_i, counted>>
    /\ UNCHANGED <<env, stop_flag, build, ret, total_range, small_primes, ex_i,
                   seg_start, groups, group_bounds, workers, results, finish_calls,
                   progress, writer_error, batch_base, segments, cancel_at, cancel_seen>>

\* lines 191-193 with the error of write_prime dropped (`let _ =` for `?`)
WritePrimeErr_dropped ==
    /\ pc = "write"
    /\ written' = Append(written, results[res_i].primes[prime_i])
    /\ writer_error' = "write_prime"
    /\ IF prime_i = Len(results[res_i].primes)
       THEN SegmentWritten
       ELSE /\ prime_i' = prime_i + 1
            /\ UNCHANGED <<pc, processed, res_i, counted>>
    /\ UNCHANGED <<env, stop_flag, build, ret, total_range, small_primes, ex_i,
                   seg_start, groups, group_bounds, workers, results, finish_calls,
                   progress, batch_base, segments, cancel_at, cancel_seen>>

\* lines 191-193: write_prime(p)? returns the writer's error
WritePrimeErr ==
    /\ pc = "write"
    /\ written' = Append(written, results[res_i].primes[prime_i])
    /\ writer_error' = "write_prime"
    /\ Return("ErrIo")
    /\ UNCHANGED <<env, stop_flag, build, orch, batch, finish_calls, progress, hist>>

\* lines 199-206 with the call of progress_cb left out
ReportProgress_silent ==
    /\ pc = "progress"
    /\ pc' = "loop"
    /\ UNCHANGED <<env, stop_flag, build, ret, orch, batch, sink, hist>>

\* lines 199-206
ReportProgress ==
    /\ pc = "progress"
    /\ progress' = Append(progress, [processed |-> Min(processed, total_range),
                                     total |-> total_range])
    /\ pc' = "loop"
    /\ UNCHANGED <<env, stop_flag, build, ret, orch, batch, written, finish_calls,
                   writer_error, hist>>

\* lines 92-93, 99-100, 133-134, 187-188, 218-219: writer.finish() returns Ok
Finish ==
    /\ pc = "finish"
    /\ finish_calls' = finish_calls + 1
    /\ Return("Ok")
    /\ UNCHANGED <<env, stop_flag, build, orch, batch, written, progress,
                   writer_error, hist>>

\* the same places: writer.finish()? returns the writer's error
FinishErr ==
    /\ pc = "finish"
    /\ finish_calls' = finish_calls + 1
    /\ writer_error' = "finish"
    /\ Return("ErrIo")
    /\ UNCHANGED <<env, stop_flag, build, orch, batch, written, progress, hist>>

\* ------------------------------------------------------ the environment
RECURSIVE MaxOf(_)
MaxOf(seq) == IF seq = <<>> THEN 0 ELSE Max(seq[Len(seq)], MaxOf(SubSeq(seq, 1, Len(seq) - 1)))

\* the highest value passed to write_prime by the time the batch that holds the
\* current position started (before the first batch: by the time it starts)
BatchStartHigh ==
    IF groups = 0
    THEN MaxOf(SelectSeq(wheel_excluded_primes(cfg.wheel_type),
                         LAMBDA q : cfg.prime_min <= q /\ q <= cfg.prime_max))
    ELSE IF pc \in {"loop", "finish"} THEN MaxOf(written)
    ELSE MaxOf(SubSeq(written, 1, batch_base))

\* how many primes of the segment whose write is in progress are still to be
\* passed to write_prime (lines 191-193)
SegmentRest ==
    IF pc = "write" THEN Len(results[res_i].primes) - prime_i + 1 ELSE 0

\* the controlling thread stores true into stop_flag while the call runs
\* (ui_panels.rs, the Stop button); nothing stores false before the call returns
SetStop ==
    /\ pc # "done"
    /\ ~stop_flag
    /\ stop_flag' = TRUE
    /\ cancel_at' = [len |-> Len(written), high |-> BatchStartHigh,
                     groups |-> groups, limit |-> Len(written) + SegmentRest]
    /\ UNCHANGED <<env, build, pc, ret, orch, batch, sink, counted, batch_base, segments,
                   cancel_seen>>

Next ==
    \/ CheckRange
    \/ CheckStopAtEntry
    \/ WriteExcludedPrime
    \/ WriteExcludedPrimeErr
    \/ CheckSieveStart
    \/ StartGroup
    \/ \E i \in DOMAIN workers : WorkerBegin(i)
    \/ \E i \in DOMAIN workers : SieveNextPrime(i)
    \/ \E i \in DOMAIN workers : MarkMultiple(i)
    \/ JoinGroup
    \/ CheckStopBeforeWrite
    \/ WritePrime
    \/ WritePrimeErr
    \/ ReportProgress
    \/ Finish
    \/ FinishErr
    \/ SetStop

Spec == Init /\ [][Next]_vars

\* ================================================================ properties
IsPrime(n) == n >= 2 /\ \A d \in 2..(n - 1) : n % d # 0

PrimesIn(lo, hi) == {n \in lo..hi : IsPrime(n)}

Range(seq) == {seq[i] : i \in DOMAIN seq}

ValidRequest == cfg.prime_min <= cfg.prime_max

\* the wheel-excluded primes of the request's range, in the order of lines 73-77
InRangeExcluded ==
    SelectSeq(wheel_excluded_primes(cfg.wheel_type),
              LAMBDA q : cfg.prime_min <= q /\ q <= cfg.prime_max)

\* the loop of lines 73-77 has run to its end
ExcludedDone == ex_i > Len(wheel_excluded_primes(cfg.wheel_type))

RECURSIVE FlattenPrimes(_)
FlattenPrimes(rs) ==
    IF rs = <<>> THEN <<>>
    ELSE FlattenPrimes(SubSeq(rs, 1, Len(rs) - 1)) \o rs[Len(rs)].primes

RECURSIVE WidthSum(_)
WidthSum(rs) ==
    IF rs = <<>> THEN 0
    ELSE WidthSum(SubSeq(rs, 1, Len(rs) - 1)) + (rs[Len(rs)].high - rs[Len(rs)].low + 1)

\* the primes of the segment being written that were already passed to write_prime
PartialSegment ==
    IF pc = "write" THEN SubSeq(results[res_i].primes, 1, prime_i - 1) ELSE <<>>

\* where the first segment starts (lines 80-97)
FirstSegmentStart ==
    LET ex == wheel_excluded_primes(cfg.wheel_type)
    IN  Max(ex[Len(ex)] + 1, cfg.prime_min)

\* C1: when a run with a valid request, no cancellation and a non-failing
\* writer has ended, the values passed to write_prime are exactly the primes of
\* [prime_min, prime_max].
C1_ExactPrimes ==
    (pc = "done" /\ ValidRequest /\ ~stop_flag /\ writer_error = "none")
        => Range(written) = PrimesIn(cfg.prime_min, cfg.prime_max)

\* C2: at every point of every run, the arguments of the write_prime calls made
\* so far are strictly increasing in call order.
C2_StrictlyIncreasing ==
    \A i \in 1..(Len(written) - 1) : written[i] < written[i + 1]

\* C3: a run that has returned Ok(()), cancelled or not, has called finish
\* exactly once; finish is never called twice, and once finish has been called
\* the run has ended, so that no write_prime follows it.
C3_FinishExactlyOnce ==
    /\ (pc = "done" /\ ret = "Ok") => finish_calls = 1
    /\ finish_calls <= 1
    /\ finish_calls >= 1 => pc = "done"

\* C4: once the cancel flag is set, no write_prime call made after that carries
\* a value above the highest value written by the start of the batch in which
\* the flag was set, and a run that returns Ok(()) has called finish exactly once.
C4_CancelBound ==
    stop_flag =>
        /\ \A i \in (cancel_at.len + 1)..Len(written) : written[i] <= cancel_at.high
        /\ (pc = "done" /\ ret = "Ok") => finish_calls = 1

\* C5: no result that a worker returned because it had seen the cancel flag is
\* ever counted as processed; what has been written is the in-range excluded
\* primes followed by the whole prime lists of the counted segments (and, while
\* a segment is being written, a prefix of its list); `processed` is the initial
\* offset plus the widths of the counted segments only.
C5_WholeSegments ==
    /\ \A k \in DOMAIN counted : ~counted[k].stopped
    /\ (ExcludedDone /\ writer_error # "write_prime")
           => written = InRangeExcluded \o FlattenPrimes(counted) \o PartialSegment
    /\ groups >= 1
           => processed = Min(U64_MAX, (FirstSegmentStart - cfg.prime_min) + WidthSum(counted))

\* a cancelled run has returned after writing some segment and discarding the
\* empty result of a worker that stopped on a segment holding a prime
C5_Witness ==
    /\ pc = "done"
    /\ ret = "Ok"
    /\ counted # <<>>
    /\ \E k \in DOMAIN results :
          /\ results[k].stopped
          /\ PrimesIn(results[k].low, results[k].high) # {}

\* C6: every Progress delivered has processed <= total, has
\* total = prime_max - prime_min + 1, and has processed >= that of the
\* delivery before it.
C6_ProgressBounds ==
    \A i \in DOMAIN progress :
        /\ progress[i].processed <= progress[i].total
        /\ progress[i].total = cfg.prime_max - cfg.prime_min + 1
        /\ i > 1 => progress[i - 1].processed <= progress[i].processed

\* C7: when a run with a valid request, no cancellation and a non-failing
\* writer has ended, progress_cb has been invoked and the last Progress has
\* processed = total.
C7_FinalProgressComplete ==
    (pc = "done" /\ ValidRequest /\ ~stop_flag /\ writer_error = "none")
        => /\ progress # <<>>
           /\ progress[Len(progress)].processed = progress[Len(progress)].total

\* C8: with prime_min > prime_max the call does nothing but return the range
\* error: no write_prime, no finish, no progress, no small-prime sieve, no
\* batch and no worker.
C8_InvalidRangeRejected ==
    cfg.prime_min > cfg.prime_max
        => /\ pc \in {"start", "done"}
           /\ pc = "done" => ret = "ErrRange"
           /\ written = <<>>
           /\ finish_calls = 0
           /\ progress = <<>>
           /\ small_primes = <<>>
           /\ groups = 0
           /\ workers = <<>>

C8_Witness ==
    /\ cfg.prime_min > cfg.prime_max
    /\ pc = "done"
    /\ ret = "ErrRange"

\* what holds in every state after a writer call returned an error
C9_Returned ==
    /\ writer_error = "write_prime" => (pc = "done" /\ ret = "ErrIo" /\ finish_calls = 0)
    /\ writer_error = "finish" => (pc = "done" /\ ret = "ErrIo" /\ finish_calls = 1)

\* C9: an error of write_prime ends the call with that error and without a
\* call of finish; an error of finish ends the call with that error after that
\* one call of finish; after either, no write_prime, finish, progress, batch or
\* worker step follows.
C9_WriterErrorReturned ==
    /\ []C9_Returned
    /\ [][writer_error # "none"
             => UNCHANGED <<written, finish_calls, progress, groups, workers>>]_vars

\* write_prime failed on a prime of a sieved segment, after earlier writes
C9_Witness ==
    /\ writer_error = "write_prime"
    /\ groups >= 1
    /\ Len(written) >= 2
    /\ pc = "done"

\* C10: a call that loaded the cancel flag as set at one of its three
\* checkpoints, and whose writer did not fail, returns Ok(()).
C10_CancelIsOk ==
    (cancel_seen /\ pc = "done" /\ writer_error = "none") => ret = "Ok"

\* the flag was seen at a checkpoint after some prime had been written
C10_Witness ==
    /\ cancel_seen
    /\ pc = "done"
    /\ ret = "Ok"
    /\ written # <<>>

\* how often v occurs in seq
Count(seq, v) == Cardinality({i \in DOMAIN seq : seq[i] = v})

\* C11: each of 2, 3 and 5 that lies in [prime_min, prime_max] is never passed
\* to write_prime twice, and when a run with a valid request, no cancellation
\* and a non-failing writer has ended, it has been passed exactly once,
\* whatever the wheel type.
C11_SmallPrimesOnce ==
    \A q \in {2, 3, 5} :
        (cfg.prime_min <= q /\ q <= cfg.prime_max)
            => /\ Count(written, q) <= 1
               /\ (pc = "done" /\ ~stop_flag /\ writer_error = "none")
                      => Count(written, q) = 1

\* C14: while the workers of a batch can sieve, every segment of every earlier
\* batch has been written completely and counted, nothing of the current batch
\* has been written, and progress_cb has been called once for each earlier
\* batch; outside that phase no worker is in the middle of a segment.
C14_BatchesSequential ==
    /\ pc = "join"
          => /\ Len(progress) = groups - 1
             /\ Len(counted) = Len(segments) - Len(group_bounds)
             /\ written = InRangeExcluded \o FlattenPrimes(counted)
    /\ (\E i \in DOMAIN workers : workers[i].wpc \in {"outer", "mark"})
          => pc \in {"join", "done"}

\* a worker of the third batch is in the middle of its segment after primes of
\* earlier batches were written
C14_Witness ==
    /\ pc = "join"
    /\ groups = 3
    /\ \E i \in DOMAIN workers : workers[i].wpc = "mark"
    /\ Len(counted) >= 2
    /\ Len(written) >= 2

\* C15: the segments pushed to group_bounds partition
\* [max(prime_min, largest excluded prime + 1), prime_max]: the first starts at
\* that lower bound, each next one starts at its predecessor's high + 1, each has
\* low <= high <= prime_max and at most segment_size numbers, and when the batch
\* loop has ended without cancellation the last one ends at prime_max.
C15_SegmentsPartition ==
    /\ segments # <<>> => segments[1][1] = FirstSegmentStart
    /\ \A i \in DOMAIN segments :
          /\ segments[i][1] <= segments[i][2]
          /\ segments[i][2] <= cfg.prime_max
          /\ segments[i][2] - segments[i][1] + 1 <= cfg.segment_size
    /\ \A i \in 1..(Len(segments) - 1) : segments[i + 1][1] = segments[i][2] + 1
    /\ (pc = "finish" /\ ~stop_flag /\ FirstSegmentStart <= cfg.prime_max)
          => /\ segments # <<>>
             /\ segments[Len(segments)][2] = cfg.prime_max

\* C16: whenever the batch loop is at its head, progress_cb has been called once
\* for every batch processed so far, the last time with the cumulative count of
\* processed numbers.
C16_ProgressPerBatch ==
    pc = "loop"
        => /\ Len(progress) = groups
           /\ groups >= 1 => progress[Len(progress)].processed = processed

\* ======================================== the engine's functions on their own
\* the variables of a run of generate_primes_cpu
run == <<cfg, stop_flag, build, pc, ret, orch, batch, sink, hist>>

\* no run of generate_primes_cpu is in progress
FnInit ==
    /\ cfg = [prime_min |-> 0, prime_max |-> 0, wheel_type |-> "Odd",
              segment_size |-> 1, num_threads |-> 1]
    /\ stop_flag = FALSE
    /\ build = "any"
    /\ pc = "done"
    /\ ret = "none"
    /\ total_range = 0
    /\ small_primes = <<>>
    /\ ex_i = 0
    /\ seg_start = 0
    /\ processed = 0
    /\ groups = 0
    /\ group_bounds = <<>>
    /\ workers = <<>>
    /\ results = <<>>
    /\ res_i = 0
    /\ prime_i = 0
    /\ written = <<>>
    /\ finish_calls = 0
    /\ progress = <<>>
    /\ writer_error = "none"
    /\ counted = <<>>
    /\ batch_base = 0
    /\ cancel_at = NoCancel
    /\ cancel_seen = FALSE
    /\ segments = <<>>
    /\ call = NoCall
    /\ value = NoCall

\* sieve_math.rs lines 4-16
CallIntegerSqrt ==
    /\ call = NoCall
    /\ \E n \in 0..U64_MAX :
        /\ call' = [fn |-> "integer_sqrt", n |-> n]
        /\ value' = isqrt_loop(n, 0, n)
        /\ UNCHANGED run

\* sieve_math.rs lines 19-49, for limits whose flag array can be allocated
CallSimpleSieve ==
    /\ call = NoCall
    /\ \E limit \in 0..MaxLimit :
        /\ call' = [fn |-> "simple_sieve", limit |-> limit]
        /\ value' = simple_sieve(limit)
        /\ UNCHANGED run

\* cpu_engine.rs lines 62-64
CallSmallPrimes ==
    /\ call = NoCall
    /\ \E prime_max \in 0..U64_MAX :
        /\ call' = [fn |-> "small_primes", prime_max |-> prime_max]
        /\ value' = simple_sieve(integer_sqrt(prime_max) + 1)
        /\ UNCHANGED run

\* bytes of physical memory get_total_memory may report, chosen so that the
\* result of line 61 falls below, inside and above [min_size, max_size]
MemorySizes == {0, 100000, 300000, 1000000, 5000000, 23000000}
UsagePercents == {0, 10, 45, 90, 100}
SegmentSizeHints == {0, 1, 999999, 1000000, 5000000, 100000000, 100000001}

\* cpu_engine.rs lines 43-55
CallSegmentSize ==
    /\ call = NoCall
    /\ \E total_memory \in MemorySizes, percent \in UsagePercents,
          num_threads \in 0..MaxThreads, wheel_type \in WheelTypes,
          segment_size \in SegmentSizeHints :
        /\ call' = [fn |-> "segment_size", total_memory |-> total_memory,
                    percent |-> percent, num_threads |-> num_threads,
                    wheel_type |-> wheel_type, segment_size |-> segment_size]
        /\ LET optimal == calculate_optimal_segment_size(total_memory, percent,
                                                         num_threads, wheel_type)
           IN  value' = [optimal |-> optimal,
                         effective |-> effective_segment_size(segment_size, optimal)]
        /\ UNCHANGED run

\* n is a candidate of the wheel (adjust_low leaves it where it is)
is_wheel_valid(n, wheel_type) == adjust_low(n, wheel_type) = n

\* cpu_engine.rs lines 343-439: n_to_index, then index_to_n on its result
CallNRoundTrip ==
    /\ call = NoCall
    /\ \E wheel_type \in WheelTypes, low \in 0..U64_MAX, n \in 0..U64_MAX :
        /\ is_wheel_valid(low, wheel_type)
        /\ is_wheel_valid(n, wheel_type)
        /\ n >= low
        /\ call' = [fn |-> "n_round_trip", wheel_type |-> wheel_type, low |-> low, n |-> n]
        /\ LET idx == n_to_index(n, low, wheel_type)
           IN  value' = [idx |-> idx,
                         back |-> IF idx = None THEN None
                                  ELSE index_to_n(idx, low, wheel_type)]
        /\ UNCHANGED run

\* cpu_engine.rs lines 343-459: index_to_n on an index of the bit array of
\* [low, high], then n_to_index on its result
CallIndexRoundTrip ==
    /\ call = NoCall
    /\ \E wheel_type \in WheelTypes, low \in 0..U64_MAX, width \in 0..MaxWidth :
        /\ is_wheel_valid(low, wheel_type)
        /\ low + width <= U64_MAX
        /\ \E idx \in 0..(calculate_bitvec_size(low, low + width, wheel_type) - 1) :
              LET n == index_to_n(idx, low, wheel_type)
              IN  \E o \in OverflowOutcomes(n > U64_MAX) :
                     /\ call' = [fn |-> "index_round_trip", wheel_type |-> wheel_type,
                                 low |-> low, high |-> low + width, idx |-> idx]
                     /\ value' = IF o = "panic"
                                 THEN [panic |-> TRUE, n |-> None, back |-> None]
                                 ELSE [panic |-> FALSE, n |-> Wrap(n),
                                       back |-> n_to_index(Wrap(n), low, wheel_type)]
        /\ UNCHANGED run

\* cpu_engine.rs lines 442-459 on a wheel-valid low <= high, and n_to_index on
\* a wheel-valid n of [low, high] (the index the marking loop of lines 298-302
\* compares with len)
CallBitvecSize ==
    /\ call = NoCall
    /\ \E wheel_type \in WheelTypes, low \in 0..U64_MAX, width \in 0..MaxWidth :
        /\ is_wheel_valid(low, wheel_type)
        /\ low + width <= U64_MAX
        /\ \E n \in low..(low + width) :
              /\ is_wheel_valid(n, wheel_type)
              /\ call' = [fn |-> "bitvec_size", wheel_type |-> wheel_type,
                          low |-> low, high |-> low + width, n |-> n]
              /\ value' = [size |-> calculate_bitvec_size(low, low + width, wheel_type),
                           idx |-> n_to_index(n, low, wheel_type)]
        /\ UNCHANGED run

\* cpu_engine.rs lines 462-498
CallAdjustLow ==
    /\ call = NoCall
    /\ \E wheel_type \in WheelTypes, low \in 0..U64_MAX :
        LET n == adjust_low(low, wheel_type)
        IN  \E o \in OverflowOutcomes(n > U64_MAX) :
               /\ call' = [fn |-> "adjust_low", wheel_type |-> wheel_type, low |-> low]
               /\ value' = IF o = "panic" THEN [panic |-> TRUE, n |-> None]
                            ELSE [panic |-> FALSE, n |-> Wrap(n)]
        /\ UNCHANGED run

FnNext ==
    \/ CallIntegerSqrt
    \/ CallAdjustLow
    \/ CallBitvecSize
    \/ CallNRoundTrip
    \/ CallIndexRoundTrip
    \/ CallSimpleSieve
    \/ CallSmallPrimes
    \/ CallSegmentSize

FnSpec == FnInit /\ [][FnNext]_vars

\* C17: for every word value n, integer_sqrt(n) returns the r with
\* r*r <= n < (r+1)*(r+1), and no step of its search overflows or underflows.
C17_IntegerSqrt ==
    call.fn = "integer_sqrt"
        => /\ ~value.ovf
           /\ value.r * value.r <= call.n
           /\ call.n < (value.r + 1) * (value.r + 1)

\* the root of the largest word value, whose first probes fail checked_mul
C17_Witness ==
    /\ call.fn = "integer_sqrt"
    /\ call.n = U64_MAX
    /\ ~value.ovf
    /\ value.r * value.r <= U64_MAX
    /\ (value.r + 1) * (value.r + 1) > U64_MAX

\* the primes of [lo, hi] in increasing order
RECURSIVE PrimeSeq(_, _)
PrimeSeq(lo, hi) ==
    IF lo > hi THEN <<>>
    ELSE (IF IsPrime(lo) THEN <<lo>> ELSE <<>>) \o PrimeSeq(lo + 1, hi)

\* C18: simple_sieve(limit) returns the primes of [2, limit] in increasing
\* order, nothing for limit < 2, and for limit = integer_sqrt(prime_max) + 1 the
\* list holds every prime p with p*p <= prime_max.
C18_SimpleSieve ==
    /\ call.fn = "simple_sieve"
          => /\ value = PrimeSeq(2, call.limit)
             /\ call.limit < 2 => value = <<>>
    /\ call.fn = "small_primes"
          => \A p \in 2..call.prime_max :
                (IsPrime(p) /\ p * p <= call.prime_max) => p \in Range(value)

\* a limit for which 2, 3 and 5 each clear multiples
C18_Witness ==
    /\ call.fn = "simple_sieve"
    /\ call.limit = 30
    /\ Len(value) = 10
    /\ value[10] = 29

\* C19: the optimum lies in [1_000_000, 100_000_000]; the effective segment
\* size is the smaller of a positive cfg.segment_size and the optimum, the
\* optimum itself for cfg.segment_size = 0, and so lies in 1..100_000_000.
C19_SegmentSize ==
    call.fn = "segment_size"
        => /\ 1000000 <= value.optimal
           /\ value.optimal <= 100000000
           /\ call.segment_size > 0
                 => /\ value.effective <= call.segment_size
                    /\ value.effective <= value.optimal
                    /\ value.effective \in {call.segment_size, value.optimal}
           /\ call.segment_size = 0 => value.effective = value.optimal
           /\ 1 <= value.effective
           /\ value.effective <= 100000000

\* an optimum strictly inside the clamp range, with a larger hint cut down to it
C19_Witness ==
    /\ call.fn = "segment_size"
    /\ 1000000 < value.optimal
    /\ value.optimal < 100000000
    /\ call.segment_size > value.optimal
    /\ value.effective = value.optimal

\* C13: for a wheel-valid low, index_to_n(n_to_index(n, low, w), low, w) = n for
\* every wheel-valid n >= low, and n_to_index(index_to_n(i, low, w), low, w) = i
\* for every index i below the size of the bit array of a segment [low, high];
\* index 0 maps to low.
C13_WheelRoundTrip ==
    /\ call.fn = "n_round_trip"
          => /\ value.idx # None
             /\ value.back = call.n
    /\ call.fn = "index_round_trip"
          => /\ ~value.panic
             /\ value.back = call.idx
             /\ call.idx = 0 => value.n = call.low

\* ================================================ a segment on its own
\* sieve_segment_collect (cpu_engine.rs lines 222-228) called on [low, high]
\* with a flag that is never set, a low above the wheel's excluded primes and
\* the primes up to at least sqrt(high): the one worker of a batch of one
SieveInit ==
    /\ \E wheel_type \in WheelTypes, low \in 0..U64_MAX, width \in 0..MaxWidth,
          extra \in 0..1 :
        LET ex == wheel_excluded_primes(wheel_type)
            high == low + width
        IN  /\ low > ex[Len(ex)]
            /\ high <= U64_MAX
            /\ cfg = [prime_min |-> low, prime_max |-> high, wheel_type |-> wheel_type,
                      segment_size |-> width + 1, num_threads |-> 1]
            /\ small_primes = simple_sieve(integer_sqrt(high) + extra)
            /\ group_bounds = <<<<low, high>>>>
            /\ call = [fn |-> "sieve_segment_collect", low |-> low, high |-> high]
    /\ stop_flag = FALSE
    /\ build = "any"
    /\ pc = "join"
    /\ ret = "none"
    /\ total_range = 0
    /\ ex_i = 0
    /\ seg_start = 0
    /\ processed = 0
    /\ groups = 1
    /\ workers = <<PendingWorker>>
    /\ results = <<>>
    /\ res_i = 0
    /\ prime_i = 0
    /\ written = <<>>
    /\ finish_calls = 0
    /\ progress = <<>>
    /\ writer_error = "none"
    /\ counted = <<>>
    /\ batch_base = 0
    /\ cancel_at = NoCancel
    /\ cancel_seen = FALSE
    /\ segments = group_bounds
    /\ value = NoCall

SieveNext ==
    \/ \E i \in DOMAIN workers : WorkerBegin(i)
    \/ \E i \in DOMAIN workers : SieveNextPrime(i)
    \/ \E i \in DOMAIN workers : MarkMultiple(i)

SieveSpec == SieveInit /\ [][SieveNext]_vars

\* C20: called with the flag never set, low above the wheel's excluded primes
\* and all primes up to sqrt(high), sieve_segment_collect returns, and what it
\* returns is the primes of [low, high] in increasing order.
C20_SegmentPrimes ==
    call.fn = "sieve_segment_collect"
        => /\ ret # "Abort"
           /\ results # <<>> => results[1].primes = PrimeSeq(call.low, call.high)

\* ============================================ one request under each wheel
\* examples/test_wheel.rs lines 111-113: the wheels in the order they are run
WheelOrder == <<"Odd", "Mod6", "Mod30">>

\* test_wheel.rs lines 14-45 for the first wheel: a request, a writer that
\* does not fail, a flag that is clear and stays clear; `value` collects what
\* the finished runs returned and passed to write_prime
WheelInit ==
    /\ cfg \in {r \in Requests : r.wheel_type = WheelOrder[1]}
    /\ stop_flag = FALSE
    /\ build = "any"
    /\ pc = "start"
    /\ ret = "none"
    /\ total_range = 0
    /\ small_primes = <<>>
    /\ ex_i = 0
    /\ seg_start = 0
    /\ processed = 0
    /\ groups = 0
    /\ group_bounds = <<>>
    /\ workers = <<>>
    /\ results = <<>>
    /\ res_i = 0
    /\ prime_i = 0
    /\ written = <<>>
    /\ finish_calls = 0
    /\ progress = <<>>
    /\ writer_error = "none"
    /\ counted = <<>>
    /\ batch_base = 0
    /\ cancel_at = NoCancel
    /\ cancel_seen = FALSE
    /\ segments = <<>>
    /\ call = [fn |-> "test_wheel"]
    /\ value = <<>>

\* test_wheel.rs lines 111-113: a run has returned and the same request is
\* run under the next wheel, by the same build; a run that panicked has ended
\* the process
NextWheel ==
    /\ call.fn = "test_wheel"
    /\ pc = "done"
    /\ ret # "Abort"
    /\ Len(value) + 1 < Len(WheelOrder)
    /\ value' = Append(value, [wheel_type |-> cfg.wheel_type, ret |-> ret,
                               written |-> written])
    /\ cfg' = [cfg EXCEPT !.wheel_type = WheelOrder[Len(value) + 2]]
    /\ pc' = "start"
    /\ ret' = "none"
    /\ total_range' = 0
    /\ small_primes' = <<>>
    /\ ex_i' = 0
    /\ seg_start' = 0
    /\ processed' = 0
    /\ groups' = 0
    /\ group_bounds' = <<>>
    /\ workers' = <<>>
    /\ results' = <<>>
    /\ res_i' = 0
    /\ prime_i' = 0
    /\ written' = <<>>
    /\ finish_calls' = 0
    /\ progress' = <<>>
    /\ counted' = <<>>
    /\ batch_base' = 0
    /\ segments' = <<>>
    /\ UNCHANGED <<call, stop_flag, build, writer_error, cancel_at, cancel_seen>>

WheelNext ==
    \/ CheckRange
    \/ CheckStopAtEntry
    \/ WriteExcludedPrime
    \/ CheckSieveStart
    \/ StartGroup
    \/ \E i \in DOMAIN workers : WorkerBegin(i)
    \/ \E i \in DOMAIN workers : SieveNextPrime(i)
    \/ \E i \in DOMAIN workers : MarkMultiple(i)
    \/ JoinGroup
    \/ CheckStopBeforeWrite
    \/ WritePrime
    \/ ReportProgress
    \/ Finish
    \/ NextWheel

WheelSpec == WheelInit /\ [][WheelNext]_vars

C21_EmptyOrComplete ==
    \A i \in DOMAIN results :
        /\ \/ results[i].primes = <<>>
           \/ results[i].primes = PrimeSeq(results[i].low, results[i].high)
        /\ results[i].stopped => results[i].primes = <<>>

\* C22: once stop_flag is set, no further batch is started and no further
\* segment's write is begun: write_prime is called at most for the rest of the
\* segment whose write was in progress when the flag was set, and the call that
\* then returns Ok has called finish.
C22_NothingNewAfterCancel ==
    stop_flag =>
        /\ groups = cancel_at.groups
        /\ Len(written) <= cancel_at.limit
        /\ (pc = "done" /\ ret = "Ok") => finish_calls = 1

\* C23: while a segment worker of the current batch has not returned, no step
\* calls write_prime, finish or progress_cb; in particular no step of a worker
\* does.
C23_WriterOnlyAtRest ==
    [][(\E i \in DOMAIN workers : workers[i].wpc # "done")
          => UNCHANGED <<written, finish_calls, progress>>]_vars

\* one worker of a batch of two has returned primes that wait unwritten while
\* the other is still marking, after an earlier batch was written
C23_Witness ==
    /\ pc = "join"
    /\ written # <<>>
    /\ \E i, j \in DOMAIN workers :
          /\ workers[i].wpc = "mark"
          /\ workers[j].wpc = "done"
    /\ \E k \in DOMAIN results : results[k].primes # <<>>

\* ============================================== one request, run once more
\* generate_primes_cpu (cpu_engine.rs lines 23-28) called with a request, a
\* flag that is clear and stays clear and a writer that does not fail; `value`
\* holds what the earlier call on the same request came to
AgainInit ==
    /\ cfg \in Requests
    /\ stop_flag = FALSE
    /\ build = "any"
    /\ pc = "start"
    /\ ret = "none"
    /\ total_range = 0
    /\ small_primes = <<>>
    /\ ex_i = 0
    /\ seg_start = 0
    /\ processed = 0
    /\ groups = 0
    /\ group_bounds = <<>>
    /\ workers = <<>>
    /\ results = <<>>
    /\ res_i = 0
    /\ prime_i = 0
    /\ written = <<>>
    /\ finish_calls = 0
    /\ progress = <<>>
    /\ writer_error = "none"
    /\ counted = <<>>
    /\ batch_base = 0
    /\ cancel_at = NoCancel
    /\ cancel_seen = FALSE
    /\ segments = <<>>
    /\ call = [fn |-> "run_again"]
    /\ value = <<>>

\* the call has returned and the same build is called again with the same
\* request, a fresh writer and a fresh callback; a call that panicked has ended
\* the process
RunAgain ==
    /\ call.fn = "run_again"
    /\ pc = "done"
    /\ ret # "Abort"
    /\ value = <<>>
    /\ value' = <<[ret |-> ret, written |-> written, progress |-> progress]>>
    /\ pc' = "start"
    /\ ret' = "none"
    /\ total_range' = 0
    /\ small_primes' = <<>>
    /\ ex_i' = 0
    /\ seg_start' = 0
    /\ processed' = 0
    /\ groups' = 0
    /\ group_bounds' = <<>>
    /\ workers' = <<>>
    /\ results' = <<>>
    /\ res_i' = 0
    /\ prime_i' = 0
    /\ written' = <<>>
    /\ finish_calls' = 0
    /\ progress' = <<>>
    /\ counted' = <<>>
    /\ batch_base' = 0
    /\ segments' = <<>>
    /\ UNCHANGED <<cfg, call, stop_flag, build, writer_error, cancel_at, cancel_seen>>

AgainNext ==
    \/ CheckRange
    \/ CheckStopAtEntry
    \/ WriteExcludedPrime
    \/ CheckSieveStart
    \/ StartGroup
    \/ \E i \in DOMAIN workers : WorkerBegin(i)
    \/ \E i \in DOMAIN workers : SieveNextPrime(i)
    \/ \E i \in DOMAIN workers : MarkMultiple(i)
    \/ JoinGroup
    \/ CheckStopBeforeWrite
    \/ WritePrime
    \/ ReportProgress
    \/ Finish
    \/ RunAgain

AgainSpec == AgainInit /\ [][AgainNext]_vars

IsPrefix(a, b) == Len(a) <= Len(b) /\ a = SubSeq(b, 1, Len(a))

\* C24: whatever the interleaving and completion order of the workers, an
\* uncancelled run with a non-failing writer passes to write_prime and to
\* progress_cb what any other such run of the same request passes: at every
\* moment a prefix of the other run's sequences, and the same sequences and the
\* same result once it has returned.
C24_SameForEveryInterleaving ==
    (call.fn = "run_again" /\ value # <<>>)
        => /\ IsPrefix(written, value[1].written)
           /\ IsPrefix(progress, value[1].progress)
           /\ pc = "done" => /\ ret = value[1].ret
                             /\ written = value[1].written
                             /\ progress = value[1].progress

\* both runs went through a batch of two segments that each hold a prime, and
\* the second has returned
C24_Witness ==
    /\ call.fn = "run_again"
    /\ value # <<>>
    /\ pc = "done"
    /\ ret = "Ok"
    /\ Len(results) = 2
    /\ results[1].primes # <<>>
    /\ results[2].primes # <<>>
    /\ Len(progress) >= 2

\* ===================================================== small ranges, sizes
\* C25: when prime_max lies below the first number after the wheel's excluded
\* primes, a run with a valid request, a flag that is never set and a writer
\* that does not fail starts no batch, and when it has ended it has returned
\* Ok, written exactly the excluded primes of [prime_min, prime_max], called
\* progress_cb once, with processed = total = prime_max - prime_min + 1, and
\* called finish once.
C25_NothingToSieve ==
    LET ex == wheel_excluded_primes(cfg.wheel_type)
        total == cfg.prime_max - cfg.prime_min + 1
    IN  (ValidRequest /\ cfg.prime_max < ex[Len(ex)] + 1 /\ ~stop_flag
         /\ writer_error = "none")
            => /\ groups = 0
               /\ workers = <<>>
               /\ segments = <<>>
               /\ pc = "done"
                     => /\ ret = "Ok"
                        /\ written = InRangeExcluded
                        /\ progress = <<[processed |-> total, total |-> total]>>
                        /\ finish_calls = 1

\* the Mod30 run on [0, 5] has returned
C25_Witness ==
    /\ cfg.wheel_type = "Mod30"
    /\ cfg.prime_min = 0
    /\ cfg.prime_max = 5
    /\ ~stop_flag
    /\ pc = "done"
    /\ ret = "Ok"
    /\ written = <<2, 3, 5>>
    /\ progress = <<[processed |-> 6, total |-> 6]>>
    /\ finish_calls = 1

\* C26: for a wheel-valid low <= high, calculate_bitvec_size(low, high, wheel)
\* is at least the number of wheel-valid values of [low, high], and every
\* wheel-valid n of [low, high] has an index n_to_index(n, low, wheel) below it.
C26_BitvecSizeCovers ==
    call.fn = "bitvec_size"
        => /\ value.size >= Cardinality({n \in call.low..call.high :
                                            is_wheel_valid(n, call.wheel_type)})
           /\ value.idx # None
           /\ value.idx < value.size

\* a Mod30 segment of 29 numbers that holds eight candidates: the last has the
\* last index of the array
C26_Witness ==
    /\ call.fn = "bitvec_size"
    /\ call.wheel_type = "Mod30"
    /\ call.high - call.low = 28
    /\ value.size = 8
    /\ value.idx = 7

\* n is a candidate of the wheel: odd, 1 or 5 modulo 6, coprime to 30
IsCandidate(n, wheel_type) ==
    CASE wheel_type = "Odd" -> n % 2 = 1
      [] wheel_type = "Mod6" -> n % 6 \in {1, 5}
      [] wheel_type = "Mod30" -> n % 2 # 0 /\ n % 3 # 0 /\ n % 5 # 0

WheelPeriod(wheel_type) ==
    CASE wheel_type = "Odd" -> 2
      [] wheel_type = "Mod6" -> 6
      [] wheel_type = "Mod30" -> 30

\* C27: adjust_low(low, wheel) returns the smallest candidate of the wheel that
\* is >= low: low itself when it is a candidate, otherwise a candidate c with
\* low < c < low + period and no candidate in [low, c).
C27_AdjustLow ==
    call.fn = "adjust_low"
        => /\ ~value.panic
           /\ IsCandidate(value.n, call.wheel_type)
           /\ call.low <= value.n
           /\ value.n < call.low + WheelPeriod(call.wheel_type)
           /\ IsCandidate(call.low, call.wheel_type) => value.n = call.low
           /\ \A m \in call.low..(value.n - 1) : ~IsCandidate(m, call.wheel_type)

\* ================================================= termination, arithmetic
\* C28: in a run with a valid request the segment start advances with every
\* segment handed out, so the batch loop runs at most once per number of
\* [prime_min, prime_max] before it exits.
C28_SegmentStartAdvances ==
    ValidRequest
        => /\ segments # <<>> => seg_start > segments[Len(segments)][1]
           /\ groups <= cfg.prime_max - cfg.prime_min + 1

\* C29: in a run with a valid request no u64 computation overflows: no step
\* panics on an overflow and no step continues with a wrapped value.
C29_NoOverflow ==
    ValidRequest
        => /\ ret # "Abort"
           /\ build = "any"

\* C30: with a writer that does not fail, when the call has returned Ok the
\* values written are the primes of [prime_min, h] in increasing order, where
\* h is prime_max when the flag was never set and otherwise the high bound of
\* the last segment written; when the flag was set and no segment was written
\* they are the wheel-excluded primes of the range, or nothing.
C30_GapFreePrefix ==
    (pc = "done" /\ ret = "Ok" /\ writer_error = "none")
        => IF ~stop_flag
           THEN written = PrimeSeq(cfg.prime_min, cfg.prime_max)
           ELSE IF counted = <<>>
           THEN written \in {<<>>, InRangeExcluded}
           ELSE written = PrimeSeq(cfg.prime_min, counted[Len(counted)].high)

====
